---- MODULE Spec2Model ----
(***************************************************************************)
(* FudgeInference (src/models/fudge/fudge_inference.py): construction,     *)
(* get_next_token_distribution and the generate_with_fudge decoding loop.  *)
(*                                                                         *)
(* Numbers.  Logits are integers.  exp is modelled by 2^x, an increasing   *)
(* positive homomorphism like e^x, so that softmax is an exact rational:   *)
(* a distribution is a record [nan, num, den] whose entry v has the value  *)
(* num[v] / den.  float('-inf') is NegInf, below every finite logit, and   *)
(* 2^NegInf = 0.  A division by a temperature t is computed on logits      *)
(* counted in halves (2 * x \div t), exact for the temperatures drawn.     *)
(* Optional arguments are sequences: <<>> is None and <<x>> is x.          *)
(*                                                                         *)
(* The base model, the tokenizer and the scorer are collaborators: what    *)
(* they return is drawn from small sets.  AutoregressiveFudgeClassifier    *)
(* (line 50) is not defined in the file; it is taken to be supplied by the *)
(* environment that imports it, so that lines 50-57 succeed.               *)
(***************************************************************************)
EXTENDS Integers, Sequences, FiniteSets, TLC

\* ---------------------------------------------------------------- bounds
VocabSize == 3
MaxLength == 2
MaxLogit == 1
MaxPromptLen == 1

Vocab == 0 .. (VocabSize - 1)
Positions == 1 .. VocabSize

\* ------------------------------------------------------------- arithmetic
RECURSIVE Pow2(_)
Pow2(n) == IF n <= 0 THEN 1 ELSE 2 * Pow2(n - 1)

RECURSIVE SumOver(_, _)
SumOver(f, S) ==
  IF S = {} THEN 0
  ELSE LET x == CHOOSE y \in S : TRUE IN f[x] + SumOver(f, S \ {x})

MinOf(S) == CHOOSE x \in S : \A y \in S : x <= y

NegInf == 0 - (2 * MaxLogit + 1)

\* x / t on logits counted in halves; t is a non-zero integer
DivTemp(x, t) == IF t > 0 THEN (2 * x) \div t ELSE 0 - ((2 * x) \div (0 - t))

\* torch.softmax over the domain of lg; all -inf gives nan
Softmax(lg) ==
  LET fin == {lg[v] : v \in DOMAIN lg} \ {NegInf}
      lo  == IF fin = {} THEN 0 ELSE MinOf(fin)
      num == [v \in DOMAIN lg |-> IF lg[v] = NegInf THEN 0 ELSE Pow2(lg[v] - lo)]
  IN  [nan |-> fin = {}, num |-> num, den |-> SumOver(num, DOMAIN lg)]

NanDistribution == [nan |-> TRUE, num |-> [v \in Vocab |-> 0], den |-> 0]

\* ------------------------------------------------- torch.topk, torch.sort
\* the k-th largest value of f (1 <= k <= size of the domain)
KthLargest(f, k) ==
  CHOOSE x \in {f[v] : v \in DOMAIN f} :
    /\ Cardinality({v \in DOMAIN f : f[v] > x}) < k
    /\ Cardinality({v \in DOMAIN f : f[v] >= x}) >= k

\* the index sets torch.topk(f, k) may return: k indices, none smaller than
\* an index left out; which of several tied indices is returned is unspecified
TopKSets(f, k) ==
  {S \in SUBSET (DOMAIN f) :
     /\ Cardinality(S) = k
     /\ \A a \in S : \A b \in (DOMAIN f) \ S : f[a] >= f[b]}

\* the sorted_indices torch.sort(lg, descending=True) may return; the sort
\* is not stable, so the order of tied entries is unspecified
SortOrders(lg) ==
  {o \in [Positions -> Vocab] :
     /\ \A i, j \in Positions : i /= j => o[i] /= o[j]
     /\ \A i \in Positions : i < VocabSize => lg[o[i]] >= lg[o[i + 1]]}

\* ---------------------------------------------- get_next_token_distribution
\* line 81: torch.topk raises for k > vocabulary size and for k < 0, and
\* the [..., -1, None] index raises on the empty result for k = 0
TopKRaises(top_k) == top_k /= <<>> /\ (top_k[1] < 1 \/ top_k[1] > VocabSize)

\* lines 80-82
TopKFilter(lg, top_k) ==
  IF top_k = <<>> THEN lg
  ELSE LET kth == KthLargest(lg, top_k[1])
       IN  [v \in Vocab |-> IF lg[v] < kth THEN NegInf ELSE lg[v]]

\* lines 85-90 without the shift of line 88
TopPRemovedUnshifted(lg, p, sorted_indices) ==
  LET sorted_logits == [i \in Positions |-> lg[sorted_indices[i]]]
      probs == Softmax(sorted_logits)
      cumulative_probs(i) == SumOver(probs.num, 1 .. i)
      over(i) == cumulative_probs(i) * p.den > p.num * probs.den
      sorted_indices_to_remove(i) == IF i = 1 THEN FALSE ELSE over(i)
  IN  {sorted_indices[i] : i \in {j \in Positions : sorted_indices_to_remove(j)}}

\* lines 85-90: the vocabulary indices marked for removal
TopPRemoved(lg, p, sorted_indices) ==
  LET sorted_logits == [i \in Positions |-> lg[sorted_indices[i]]]
      probs == Softmax(sorted_logits)
      cumulative_probs(i) == SumOver(probs.num, 1 .. i)
      over(i) == cumulative_probs(i) * p.den > p.num * probs.den
      sorted_indices_to_remove(i) == IF i = 1 THEN FALSE ELSE over(i - 1)
  IN  {sorted_indices[i] : i \in {j \in Positions : sorted_indices_to_remove(j)}}

\* lines 84-91
TopPFilter(lg, top_p, sorted_indices) ==
  IF top_p = <<>> THEN lg
  ELSE LET removed == TopPRemoved(lg, top_p[1], sorted_indices)
       IN  [v \in Vocab |-> IF v \in removed THEN NegInf ELSE lg[v]]

\* line 78 followed by lines 80-82: the logits the nucleus filter sorts
ScaledTopK(model_logits, temperature, top_k) ==
  TopKFilter([v \in Vocab |-> DivTemp(model_logits[v], temperature)], top_k)

\* lines 76-93.  With temperature 0 every logit becomes inf, -inf or nan
\* and the softmax of line 93 is nan in every entry; nothing is raised.
GetNextTokenDistribution(model_logits, temperature, top_k, top_p, sorted_indices) ==
  IF temperature = 0 THEN NanDistribution
  ELSE Softmax(TopPFilter(ScaledTopK(model_logits, temperature, top_k),
                          top_p, sorted_indices))

\* -------------------------------------------------------------- __init__
\* lines 40-47 with the range check of line 45 off by one
InitRaisesOffByOne(mapping, num_labels, target) ==
  IF target.is_str THEN target.name \notin DOMAIN mapping
  ELSE ~(0 <= target.index /\ target.index <= num_labels)

\* lines 40-47: the exception raised for the given target_class, if any
InitRaises(mapping, num_labels, target) ==
  IF target.is_str THEN target.name \notin DOMAIN mapping
  ELSE ~(0 <= target.index /\ target.index < num_labels)

\* the ValueError of line 42 or of line 46
InitError(mapping, num_labels, target) ==
  IF target.is_str
  THEN [type |-> "ValueError", text |-> "Unknown class name", value |-> <<target.name>>,
        available |-> DOMAIN mapping, upper |-> <<>>]
  ELSE [type |-> "ValueError", text |-> "target_class must be between 0 and",
        value |-> <<>>, available |-> {}, upper |-> <<num_labels - 1>>]

\* lines 43 and 47
ResolveTargetClass(mapping, target) ==
  IF target.is_str THEN mapping[target.name] ELSE target.index

NoError == [type |-> "", text |-> "", value |-> <<>>, available |-> {}, upper |-> <<>>]
RuntimeError(text) ==
  [type |-> "RuntimeError", text |-> text, value |-> <<>>, available |-> {}, upper |-> <<>>]

\* ------------------------------------------------------ generate_with_fudge
\* tokenizer.eos_token_id, the last id of the vocabulary
EosTokenId == VocabSize - 1

\* line 148 reading the channel of the target class
FudgeScoreOfTarget(outputs, target) == outputs[target]

\* line 148: the channel of the scorer's output that is read
FudgeScore(outputs, target) == outputs[1]

\* line 147: the scorer's logits for one candidate sequence, one per class;
\* on is its "on track" logit, the other channels carry the complement
FudgeModel(on, num_labels) ==
  [ch \in 0 .. (num_labels - 1) |-> IF ch = 1 THEN on ELSE MaxLogit - on]

\* line 135 and line 163
ClampK(k) == IF k < VocabSize THEN k ELSE VocabSize

\* line 153
FudgeDistribution(fudge_scores, fudge_temperature) ==
  Softmax([c \in DOMAIN fudge_scores |-> DivTemp(fudge_scores[c], fudge_temperature)])

\* line 154 with the two weights exchanged
CombinedScoresSwapped(base, fd, cand, lambda_weight) ==
  [c \in cand |-> lambda_weight * base.num[c] * fd.den
                  + (2 - lambda_weight) * fd.num[c] * base.den]

\* line 154, over the denominator CombinedDen: lambda_weight counts halves
CombinedScores(base, fd, cand, lambda_weight) ==
  [c \in cand |-> (2 - lambda_weight) * base.num[c] * fd.den
                  + lambda_weight * fd.num[c] * base.den]

CombinedDen(base, fd) == 2 * base.den * fd.den

\* lines 157-158 starting from torch.ones_like
ScatterOntoOnes(scores, cand) == [v \in Vocab |-> IF v \in cand THEN scores[v] ELSE 1]

\* lines 157-158
Scatter(scores, cand) == [v \in Vocab |-> IF v \in cand THEN scores[v] ELSE 0]

\* lines 160-166
Retruncate(dist, top_k_indices) ==
  [v \in Vocab |-> IF v \in top_k_indices THEN dist[v] ELSE 0]

\* line 169: the tokens torch.multinomial can draw
Support(weights) == {v \in Vocab : weights[v] > 0}

\* ------------------------------------------------------------------ inputs
ClassNames == {"positive", "negative", "neutral"}

\* the checkpoint file: label_mapping and num_labels (lines 35-37)
Checkpoints ==
  { [label_mapping |-> ("negative" :> 0 @@ "positive" :> 1), num_labels |-> 2] }

\* target_class as given to __init__: a name or an integer
TargetArgs ==
  {[is_str |-> TRUE, name |-> n, index |-> 0] : n \in ClassNames \cup {"unknown"}}
  \cup {[is_str |-> FALSE, name |-> "", index |-> i] : i \in -1 .. 2}

Temperatures == {-1, 0, 1, 2}
BaseTemperatures == {-1, 0, 1}
FudgeTemperatures == {1}
TopKs == {<<>>} \cup {<<k>> : k \in 0 .. (VocabSize + 1)}
TopPs == {<<>>} \cup {<<[num |-> n, den |-> 4]>> : n \in 1 .. 4}
BaseTopKs == {<<>>, <<2>>}
BaseTopPs == {<<>>, <<[num |-> 3, den |-> 4]>>}
FudgeTopKs == {0, 1, 2, VocabSize + 1}
LambdaWeights == {0, 1, 2}
ModelLogits == [Vocab -> 0 .. MaxLogit]

\* the ids of a prompt: an ordinary token and the end-of-sequence token
PromptTokens == {0, VocabSize - 1}

RECURSIVE SeqsUpTo(_)
SeqsUpTo(n) ==
  IF n = 0 THEN {<<>>}
  ELSE LET shorter == SeqsUpTo(n - 1)
       IN  shorter \cup {Append(s, t) : s \in shorter, t \in PromptTokens}

\* tokenizer.encode(prompt) (line 119)
Prompts == SeqsUpTo(MaxPromptLen)

\* the sorted_indices of line 85: the sort runs only when top_p is given,
\* and with temperature 0 every probability is nan whatever the order
SortChoices(model_logits, temperature, top_k, top_p) ==
  IF top_p = <<>> \/ temperature = 0 THEN {[i \in Positions |-> i - 1]}
  ELSE SortOrders(ScaledTopK(model_logits, temperature, top_k))

\* ------------------------------------------------------------------- state
VARIABLES
  pc,                    \* "new", "ready", "for", "body", "returned", "raised"
  call,                  \* the method called last
  args,                  \* its arguments
  error,                 \* the exception it raised, or NoError
  checkpoint,            \* the file at fudge_model_path
  label_mapping,         \* self.label_mapping
  num_classes,           \* self.num_classes
  target_class,          \* self.target_class, <<>> while unset
  dist_out,              \* what get_next_token_distribution returned
  input_ids,             \* line 119
  generated_tokens,      \* lines 121, 172
  step,                  \* iterations of the loop of line 123 entered
  broke,                 \* the break of line 175 was taken
  base_distribution,     \* line 125
  candidate_indices,     \* line 133
  fudge_outputs,         \* line 147, per candidate
  fudge_scores,          \* line 152
  fudge_distribution,    \* line 153
  combined_scores,       \* line 154
  combined_distribution, \* lines 157-166
  next_token,            \* line 169, <<>> before the first draw
  twin                   \* a second decoder run beside this one, if present

instance_vars == <<label_mapping, num_classes, target_class>>
loop_vars == <<input_ids, generated_tokens, step, broke>>
step_vars == <<base_distribution, candidate_indices, fudge_outputs, fudge_scores,
               fudge_distribution, combined_scores, combined_distribution, next_token>>
vars == <<pc, call, args, error, checkpoint, dist_out, instance_vars, loop_vars, step_vars,
          twin>>

NoTwin == [present |-> FALSE, target_class |-> <<>>, pc |-> "", generated_tokens |-> <<>>,
           step |-> 0, broke |-> FALSE, next_token |-> <<>>]

ZeroVector == [v \in Vocab |-> 0]

\* the variables of one iteration while unassigned
StepVarsUnset ==
  /\ base_distribution = NanDistribution
  /\ candidate_indices = {}
  /\ fudge_outputs = <<>>
  /\ fudge_scores = <<>>
  /\ fudge_distribution = NanDistribution
  /\ combined_scores = <<>>
  /\ combined_distribution = ZeroVector
  /\ next_token = <<>>

Init ==
  /\ pc = "new"
  /\ call = ""
  /\ args = <<>>
  /\ error = NoError
  /\ checkpoint \in Checkpoints
  /\ label_mapping = <<>>
  /\ num_classes = 0
  /\ target_class = <<>>
  /\ dist_out = NanDistribution
  /\ input_ids = <<>>
  /\ generated_tokens = <<>>
  /\ step = 0
  /\ broke = FALSE
  /\ StepVarsUnset
  /\ twin = NoTwin

\* __init__, lines 24-57
Construct ==
  /\ pc = "new"
  /\ \E target \in TargetArgs :
       /\ call' = "__init__"
       /\ args' = target
       /\ label_mapping' = checkpoint.label_mapping
       /\ num_classes' = checkpoint.num_labels
       /\ IF InitRaises(checkpoint.label_mapping, checkpoint.num_labels, target)
          THEN /\ pc' = "raised"
               /\ error' = InitError(checkpoint.label_mapping, checkpoint.num_labels, target)
               /\ target_class' = <<>>
          ELSE /\ pc' = "ready"
               /\ error' = NoError
               /\ target_class' = <<ResolveTargetClass(checkpoint.label_mapping, target)>>
  /\ UNCHANGED <<checkpoint, dist_out, loop_vars, step_vars, twin>>

\* get_next_token_distribution called by the user, lines 68-93
CallGetNextTokenDistribution ==
  /\ pc = "ready"
  /\ \E model_logits \in ModelLogits, temperature \in Temperatures,
        top_k \in TopKs, top_p \in TopPs :
       /\ call' = "get_next_token_distribution"
       /\ IF TopKRaises(top_k)
          THEN /\ pc' = "raised"
               /\ error' = RuntimeError("selected index k out of range")
               /\ args' = [model_logits |-> model_logits, temperature |-> temperature,
                           top_k |-> top_k, top_p |-> top_p, sorted_indices |-> <<>>]
               /\ UNCHANGED dist_out
          ELSE \E sorted_indices \in SortChoices(model_logits, temperature, top_k, top_p) :
                 /\ pc' = "returned"
                 /\ error' = NoError
                 /\ args' = [model_logits |-> model_logits, temperature |-> temperature,
                             top_k |-> top_k, top_p |-> top_p,
                             sorted_indices |-> sorted_indices]
                 /\ dist_out' = GetNextTokenDistribution(model_logits, temperature,
                                                         top_k, top_p, sorted_indices)
  /\ UNCHANGED <<checkpoint, instance_vars, loop_vars, step_vars, twin>>

\* generate_with_fudge, lines 119-121: the call and its arguments
GenerateStart ==
  /\ pc = "ready"
  /\ \E prompt \in Prompts, max_length \in 0 .. MaxLength,
        temperature \in BaseTemperatures, fudge_temperature \in FudgeTemperatures,
        base_top_k \in BaseTopKs, base_top_p \in BaseTopPs,
        fudge_top_k \in FudgeTopKs, lambda_weight \in LambdaWeights :
       /\ args' = [max_length |-> max_length, temperature |-> temperature,
                   fudge_temperature |-> fudge_temperature, base_top_k |-> base_top_k,
                   base_top_p |-> base_top_p, fudge_top_k |-> fudge_top_k,
                   lambda_weight |-> lambda_weight]
       /\ input_ids' = prompt
       /\ generated_tokens' = prompt
       /\ twin' = IF twin.present
                  THEN [twin EXCEPT !.pc = "for", !.generated_tokens = prompt,
                                    !.step = 0, !.broke = FALSE, !.next_token = <<>>]
                  ELSE twin
  /\ pc' = "for"
  /\ call' = "generate_with_fudge"
  /\ step' = 0
  /\ broke' = FALSE
  /\ UNCHANGED <<error, checkpoint, dist_out, instance_vars, step_vars>>

\* the number of dimensions of the tensors that torch.cat is given:
\* generated_tokens is [1, seq_len] (lines 119-121), token_id.unsqueeze(0)
\* .unsqueeze(0) is [1, 1] (line 143), and next_token, drawn from the 1-D
\* combined_distribution[0], is [1] (line 169)
NDimGeneratedTokens == 2
NDimCandidateToken == 2
NDimNextToken == 1

\* torch.cat (lines 141, 172) raises unless its tensors have the same
\* number of dimensions
TorchCatRaises(ndim_a, ndim_b) == ndim_a /= ndim_b

\* line 123 running one iteration too many
LoopContinuesOffByOne(entered, max_length, stop) == ~stop /\ entered <= max_length

\* line 123: the loop body is entered again
LoopContinues(entered, max_length, stop) == ~stop /\ entered < max_length

\* line 174
BreakTaken(token) == token = EosTokenId

\* what one iteration raises before anything is drawn: the [:, -1, :] of
\* line 78 on an empty sequence, torch.topk with k < 0 (lines 133, 161), the
\* torch.cat of line 141 and the [0, 1] of line 148 on a scorer with a
\* single class
StepRaises ==
  \/ generated_tokens = <<>>
  \/ args.fudge_top_k < 0
  \/ (args.fudge_top_k > 0 /\ TorchCatRaises(NDimGeneratedTokens, NDimCandidateToken))
  \/ (args.fudge_top_k > 0 /\ num_classes < 2)
  \/ (args.base_top_k /= <<>> /\ args.base_top_k[1] < 0)

\* lines 139-149: the scorer's output for every candidate, and the scores read
FudgeOutputs(cand, on, num_labels) == [c \in cand |-> FudgeModel(on[c], num_labels)]

FudgeScores(outputs, target) ==
  [c \in DOMAIN outputs |-> FudgeScore(outputs[c], target)]

\* lines 152-158: the combined distribution before the re-truncation
Fused(base, scores, a) ==
  Scatter(CombinedScores(base, FudgeDistribution(scores, a.fudge_temperature),
                         DOMAIN scores, a.lambda_weight),
          DOMAIN scores)

\* line 161: the indices the re-truncation may keep
KeepChoices(dist, a) ==
  IF a.base_top_k = <<>> THEN {Vocab} ELSE TopKSets(dist, ClampK(a.base_top_k[1]))

\* line 169 raises on nan weights and on weights that sum to 0
MultinomialRaises(base, weights) == base.nan \/ Support(weights) = {}

\* The second decoder of a pair runs the same iteration on the same outputs
\* of the two models and the same random draw as the first: on equal inputs
\* torch.topk and torch.multinomial return what they returned for the first,
\* and on other weights the same draw may fall on another token.
TwinStep(tw, base, outputs, fused, keep, weights, token) ==
  LET tw_fused == Fused(base, FudgeScores(outputs, tw.target_class[1]), args)
      tw_keep == IF tw_fused = fused THEN keep
                 ELSE CHOOSE k \in KeepChoices(tw_fused, args) : TRUE
      tw_weights == Retruncate(tw_fused, tw_keep)
      tw_token == IF tw_weights = weights THEN token
                  ELSE CHOOSE t \in Support(tw_weights) :
                         t /= token \/ Support(tw_weights) = {token}
  IN  IF ~tw.present \/ tw.pc /= "body" \/ tw.generated_tokens /= generated_tokens
      THEN tw
      ELSE IF MultinomialRaises(base, tw_weights)
      THEN [tw EXCEPT !.pc = "raised"]
      ELSE IF TorchCatRaises(NDimGeneratedTokens, NDimNextToken)
      THEN [tw EXCEPT !.pc = "raised", !.next_token = <<tw_token>>]
      ELSE [tw EXCEPT !.pc = "for",
                      !.next_token = <<tw_token>>,
                      !.generated_tokens = Append(tw.generated_tokens, tw_token),
                      !.broke = BreakTaken(tw_token)]

\* line 123: the next iteration is entered
ForLoop ==
  /\ pc = "for"
  /\ LoopContinues(step, args.max_length, broke)
  /\ pc' = "body"
  /\ step' = step + 1
  /\ twin' = IF twin.present /\ twin.pc = "for"
                /\ LoopContinues(twin.step, args.max_length, twin.broke)
             THEN [twin EXCEPT !.pc = "body", !.step = twin.step + 1] ELSE twin
  /\ UNCHANGED <<call, args, error, checkpoint, dist_out, instance_vars,
                 input_ids, generated_tokens, broke, step_vars>>

\* the body of the loop, lines 124-175: one decoding step
Step ==
  /\ pc = "body"
  /\ call' = call
  /\ IF StepRaises
     THEN /\ pc' = "raised"
          /\ error' = RuntimeError("index or k out of range")
          /\ twin' = IF twin.present THEN [twin EXCEPT !.pc = "raised"] ELSE twin
          /\ UNCHANGED <<loop_vars, step_vars>>
     ELSE \E model_logits \in ModelLogits :
          \E sorted_indices \in SortChoices(model_logits, args.temperature, <<>>,
                                            args.base_top_p) :
            LET base == GetNextTokenDistribution(model_logits, args.temperature, <<>>,
                                                 args.base_top_p, sorted_indices)
            IN
            \E cand \in TopKSets(base.num, ClampK(args.fudge_top_k)) :
            \E on \in [cand -> 0 .. MaxLogit] :
              LET outputs == FudgeOutputs(cand, on, num_classes)
                  scores == FudgeScores(outputs, target_class[1])
                  fused == Fused(base, scores, args)
              IN
              \E keep \in KeepChoices(fused, args) :
                LET weights == Retruncate(fused, keep)
                IN
                /\ base_distribution' = base
                /\ candidate_indices' = cand
                /\ fudge_outputs' = outputs
                /\ fudge_scores' = scores
                /\ fudge_distribution' = FudgeDistribution(scores, args.fudge_temperature)
                /\ combined_scores' = CombinedScores(base, fudge_distribution', cand,
                                                     args.lambda_weight)
                /\ combined_distribution' = weights
                /\ IF MultinomialRaises(base, weights)
                   THEN /\ pc' = "raised"
                        /\ error' = RuntimeError("invalid multinomial distribution")
                        /\ twin' = TwinStep(twin, base, outputs, fused, keep, weights, 0)
                        /\ UNCHANGED <<loop_vars, next_token>>
                   ELSE \E token \in Support(weights) :
                          /\ next_token' = <<token>>
                          /\ twin' = TwinStep(twin, base, outputs, fused, keep, weights, token)
                          /\ IF TorchCatRaises(NDimGeneratedTokens, NDimNextToken)
                             THEN /\ pc' = "raised"
                                  /\ error' = RuntimeError(
                                       "Tensors must have same number of dimensions")
                                  /\ UNCHANGED loop_vars
                             ELSE /\ generated_tokens' = Append(generated_tokens, token)
                                  /\ broke' = BreakTaken(token)
                                  /\ pc' = "for"
                                  /\ error' = error
                                  /\ UNCHANGED <<input_ids, step>>
  /\ UNCHANGED <<args, checkpoint, dist_out, instance_vars>>

\* line 177: the loop is over, the tokens are decoded and returned
Return ==
  /\ pc = "for"
  /\ ~LoopContinues(step, args.max_length, broke)
  /\ pc' = "returned"
  /\ twin' = IF twin.present /\ twin.pc = "for"
                /\ ~LoopContinues(twin.step, args.max_length, twin.broke)
             THEN [twin EXCEPT !.pc = "returned"] ELSE twin
  /\ UNCHANGED <<call, args, error, checkpoint, dist_out, instance_vars, loop_vars, step_vars>>

Next ==
  \/ Construct
  \/ CallGetNextTokenDistribution
  \/ GenerateStart
  \/ ForLoop
  \/ Step
  \/ Return

Spec == Init /\ [][Next]_vars

\* ---------------------------------------------------------- a pair of decoders
\* Two decoders built from one checkpoint, the first with the target class
\* given by name and the second with the index the label mapping gives it.
InitPair ==
  /\ checkpoint \in Checkpoints
  /\ \E name \in DOMAIN checkpoint.label_mapping :
       LET by_name == [is_str |-> TRUE, name |-> name, index |-> 0]
           by_index == [is_str |-> FALSE, name |-> "",
                        index |-> checkpoint.label_mapping[name]]
       IN  /\ target_class = <<ResolveTargetClass(checkpoint.label_mapping, by_name)>>
           /\ twin = [NoTwin EXCEPT
                        !.present = TRUE, !.pc = "ready",
                        !.target_class =
                          <<ResolveTargetClass(checkpoint.label_mapping, by_index)>>]
  /\ pc = "ready"
  /\ call = "__init__"
  /\ args = <<>>
  /\ error = NoError
  /\ label_mapping = checkpoint.label_mapping
  /\ num_classes = checkpoint.num_labels
  /\ dist_out = NanDistribution
  /\ input_ids = <<>>
  /\ generated_tokens = <<>>
  /\ step = 0
  /\ broke = FALSE
  /\ StepVarsUnset

NextPair ==
  \/ GenerateStart
  \/ ForLoop
  \/ Step
  \/ Return

SpecPair == InitPair /\ [][NextPair]_vars

\* ------------------------------------------------------------------ claims
Generating == call = "generate_with_fudge"
DistCall == call = "get_next_token_distribution"
MinK(k) == IF k < VocabSize THEN k ELSE VocabSize
LastToken == generated_tokens[Len(generated_tokens)]

\* an iteration of the loop body can be taken: it raises at once, or the
\* outputs and choices it draws exist
StepCanRun ==
  \/ StepRaises
  \/ \E model_logits \in ModelLogits :
     \E sorted_indices \in SortChoices(model_logits, args.temperature, <<>>,
                                       args.base_top_p) :
     \E cand \in TopKSets(GetNextTokenDistribution(model_logits, args.temperature, <<>>,
                                                   args.base_top_p, sorted_indices).num,
                          ClampK(args.fudge_top_k)) :
     \E on \in [cand -> 0 .. MaxLogit] :
       KeepChoices(Fused(GetNextTokenDistribution(model_logits, args.temperature, <<>>,
                                                  args.base_top_p, sorted_indices),
                         FudgeScores(FudgeOutputs(cand, on, num_classes), target_class[1]),
                         args),
                   args) /= {}

\* C1: generate_with_fudge terminates: it is at the loop head, where it
\* enters the body or returns, in the body, where an iteration can be taken,
\* or over; the loop body is entered at most max_length times; and the
\* tokens it holds (the ones decoded at the end) are the encoded prompt
\* followed by at most max_length tokens.
C1_BoundedGeneration ==
  Generating =>
    /\ pc \in {"for", "body", "returned", "raised"}
    /\ pc = "body" => StepCanRun
    /\ step <= args.max_length
    /\ Len(generated_tokens) <= Len(input_ids) + step
    /\ SubSeq(generated_tokens, 1, Len(input_ids)) = input_ids

\* the loop body was entered max_length >= 1 times, a token was drawn and
\* the call is over
C1_Witness ==
  /\ Generating
  /\ pc \in {"returned", "raised"}
  /\ step >= 1
  /\ step = args.max_length
  /\ next_token /= <<>>

\* C2 (as claimed): a sampled end-of-sequence token is appended and ends the
\* loop, no token follows a generated end-of-sequence token, and the call
\* returns with fewer than max_length tokens appended only if the last
\* appended token is the end-of-sequence id.
C2_EosAppendedAndStops ==
  (Generating /\ args.temperature > 0) =>
    /\ next_token = <<EosTokenId>> =>
         /\ Len(generated_tokens) > Len(input_ids)
         /\ LastToken = EosTokenId
         /\ broke
    /\ \A i \in (Len(input_ids) + 1) .. (Len(generated_tokens) - 1) :
         generated_tokens[i] /= EosTokenId
    /\ (pc = "returned" /\ Len(generated_tokens) < Len(input_ids) + args.max_length) =>
         (Len(generated_tokens) > Len(input_ids) /\ LastToken = EosTokenId)

\* C3: the combined distribution that is sampled from has weight zero on
\* every vocabulary position outside the candidate set, and a sampled token
\* is one of the min(fudge_top_k, vocabulary size) candidates, which are top
\* tokens of the base distribution of the step.
C3_SampledFromCandidates ==
  Generating =>
    /\ \A v \in Vocab \ candidate_indices : combined_distribution[v] = 0
    /\ next_token /= <<>> =>
         /\ next_token[1] \in candidate_indices
         /\ Cardinality(candidate_indices) = MinK(args.fudge_top_k)
         /\ \A a \in candidate_indices : \A b \in Vocab \ candidate_indices :
              base_distribution.num[a] >= base_distribution.num[b]

\* a token was drawn in a step that left out a token of positive base
\* probability and re-truncated the combined distribution
C3_Witness ==
  /\ Generating
  /\ next_token /= <<>>
  /\ args.base_top_k /= <<>>
  /\ \E v \in Vocab \ candidate_indices : base_distribution.num[v] > 0

\* the logits after line 78, and their softmax before any filter
ScaledArgs == [v \in Vocab |-> DivTemp(args.model_logits[v], args.temperature)]
UnfilteredNum(i) == Softmax(ScaledArgs).num[args.sorted_indices[i]]
CumulativeUpTo(i) == SumOver([j \in Positions |-> UnfilteredNum(j)], 1 .. i)
CumulativeExceedsP(i) ==
  CumulativeUpTo(i) * args.top_p[1].den > args.top_p[1].num * Softmax(ScaledArgs).den

\* C4 (as claimed): with top_k = k >= 1 and top_p unset the call returns a
\* distribution with exactly min(k, vocabulary size) nonzero entries, and
\* they are k largest scores, also with ties and with k above the size.
C4_TopKKeepsExactlyK ==
  (DistCall /\ args.top_k /= <<>> /\ args.top_p = <<>>
     /\ args.top_k[1] >= 1 /\ args.temperature > 0) =>
    /\ pc = "returned"
    /\ Cardinality(Support(dist_out.num)) = MinK(args.top_k[1])
    /\ \A a \in Support(dist_out.num) : \A b \in Vocab \ Support(dist_out.num) :
         ScaledArgs[a] >= ScaledArgs[b]

TopPCall ==
  /\ DistCall
  /\ pc = "returned"
  /\ args.top_p /= <<>>
  /\ args.top_k = <<>>
  /\ args.temperature > 0

\* C5 (as claimed): with top_p = p the surviving support is the highest
\* position together with the positions whose cumulative probability in
\* sorted order, inclusive of the position itself, does not exceed p.
C5_InclusiveCumulative ==
  TopPCall =>
    Support(dist_out.num) =
      {args.sorted_indices[i] : i \in {j \in Positions : j = 1 \/ ~CumulativeExceedsP(j)}}

\* C5 (amended): with top_p = p the surviving support is the highest
\* position together with the positions for which the cumulative probability
\* of the positions sorted before them does not exceed p; it is never empty.
C5_ExclusiveCumulative ==
  TopPCall =>
    /\ Support(dist_out.num) =
         {args.sorted_indices[i] :
            i \in {j \in Positions : j = 1 \/ ~CumulativeExceedsP(j - 1)}}
    /\ args.sorted_indices[1] \in Support(dist_out.num)

\* a position survives although its inclusive cumulative probability
\* exceeds p, and another call keeps only the highest position, whose
\* probability alone exceeds p
C5_Witness ==
  /\ TopPCall
  /\ \/ \E i \in Positions :
          i > 1 /\ CumulativeExceedsP(i) /\ args.sorted_indices[i] \in Support(dist_out.num)
     \/ (CumulativeExceedsP(1) /\ Support(dist_out.num) = {args.sorted_indices[1]})

\* C6: with lambda_weight = 0 the combined weight of every candidate is its
\* base probability, and with lambda_weight = 1 it is its auxiliary softmax
\* probability (lambda_weight counts halves; the weights are fractions over
\* CombinedDen).
C6_LambdaEndpoints ==
  (Generating /\ candidate_indices /= {} /\ ~base_distribution.nan) =>
    LET den == CombinedDen(base_distribution, fudge_distribution)
    IN  /\ args.lambda_weight = 0 =>
             \A c \in candidate_indices :
               combined_scores[c] * base_distribution.den = base_distribution.num[c] * den
        /\ args.lambda_weight = 2 =>
             \A c \in candidate_indices :
               combined_scores[c] * fudge_distribution.den = fudge_distribution.num[c] * den

\* lambda_weight = 0 in a step whose candidates have different auxiliary
\* scores and different base probabilities
C6_Witness ==
  /\ Generating
  /\ next_token /= <<>>
  /\ args.lambda_weight = 0
  /\ \E a, b \in candidate_indices :
       /\ fudge_scores[a] /= fudge_scores[b]
       /\ base_distribution.num[a] /= base_distribution.num[b]

\* C7 (as claimed): with temperature <= 0 get_next_token_distribution
\* raises, and generate_with_fudge draws no token, leaves the token
\* sequence as it is and does not return.
C7_NonPositiveTemperatureRaises ==
  /\ (DistCall /\ args.temperature <= 0) => pc = "raised"
  /\ (Generating /\ args.temperature <= 0) =>
       /\ next_token = <<>>
       /\ generated_tokens = input_ids
       /\ pc /= "returned"

\* C8: __init__ raises and leaves no decoder for a name the label mapping
\* does not hold (the error carries the name and the valid names) and for an
\* integer outside 0 .. num_classes - 1; otherwise the target class is the
\* index the mapping gives the name, or the integer itself.
C8_TargetClassResolution ==
  (call = "__init__" /\ ~twin.present) =>
    LET mapping == checkpoint.label_mapping
        valid == IF args.is_str THEN args.name \in DOMAIN mapping
                 ELSE args.index \in 0 .. (checkpoint.num_labels - 1)
    IN  /\ valid =>
             /\ pc = "ready"
             /\ target_class = <<IF args.is_str THEN mapping[args.name] ELSE args.index>>
        /\ ~valid =>
             /\ pc = "raised"
             /\ target_class = <<>>
             /\ error.type = "ValueError"
             /\ args.is_str => (error.value = <<args.name>> /\ error.available = DOMAIN mapping)

\* an unknown name was refused
C8_Witness ==
  /\ call = "__init__"
  /\ pc = "raised"
  /\ args.is_str
  /\ error.value = <<"unknown">>

C10_StepAppendsSampledToken ==
  (Generating /\ args.temperature > 0 /\ next_token /= <<>>) =>
    /\ pc /= "raised"
    /\ Len(generated_tokens) = Len(input_ids) + step
    /\ SubSeq(generated_tokens, 1, Len(input_ids)) = input_ids
    /\ LastToken = next_token[1]

====
